---------------------------- MODULE Spec2Model ----------------------------
(***************************************************************************)
(* A model of network-monitor's client (src/client/src/main.rs): the       *)
(* bounded per-host store PingData, the socket filter installed by         *)
(* filter_icmp_replies, and the probe loop repeatedly_ping.                *)
(*                                                                         *)
(* Time is the wall clock in milliseconds, rebased so that the run starts  *)
(* at 0.  Every Utc::now() of the source reads the variable `now`.         *)
(***************************************************************************)
EXTENDS Integers, Sequences, FiniteSets, TLC

VARIABLES
    now,        \* the wall clock, ms
    args,       \* main: hostnames_to_ping, the command line
    main_i,     \* main: how many hostnames the `for` loop has handled
    data,       \* PingData.data: hostname -> (timestamp -> duration)
    mutex,      \* the Mutex around PingData: 0 free, else the holder
    loop,       \* per probe thread: the locals of repeatedly_ping
    socket,     \* per probe thread: its raw socket (filters, receive queue)
    exited,     \* std::process::exit has been called
    inserted,   \* history: per hostname, the <<when, how_long>> pairs handed
                \* to add_entry since the hostname was registered
    bpf_in,     \* filter check: a packet and filter_icmp_replies' arguments
    bpf_ret,    \* filter check: what the filter program returned (-1: not run)
    render,     \* index: the position of the request handler and what it read
    codec,      \* message check: an IcmpEchoMessage, its bytes, what from gave
    retention   \* retention check: the configured capacity and the samples
                \* a series has taken and still keeps

vars == <<now, args, main_i, data, mutex, loop, socket, exited,
          inserted, bpf_in, bpf_ret, render, codec, retention>>

(***************************************************************************)
(* Program constants.                                                      *)
(***************************************************************************)
IP_HEADER_SIZE == 20
ICMP_MSG_SIZE == 64
SEC_BETWEEN_PINGS == 5
PING_TIMEOUT_MSEC == 1000
\* config.rs sets MAX_ENTRIES_SAVED to 30 * 24 * (60 / SEC_BETWEEN_PINGS);
\* the model runs add_entry against a small capacity so that eviction
\* happens within a few probes.
MAX_ENTRIES_SAVED == 3
U16_MAX == 65535

ProbeIntervalMs == SEC_BETWEEN_PINGS * 1000

(***************************************************************************)
(* Bounds of the model.                                                    *)
(***************************************************************************)
MaxStamp == 5       \* store check: timestamps 1..MaxStamp
MaxInserts == 5     \* store check: add_entry calls per run
TickMs == 500       \* the clock advances in steps of TickMs
MaxTime == 5500     \* the clock stops at MaxTime
MaxQueue == 1       \* packets a socket's receive queue holds

Hostnames == {"a", "b"}

Min(S) == CHOOSE x \in S : \A y \in S : x <= y
Max(S) == CHOOSE x \in S : \A y \in S : x >= y

(***************************************************************************)
(* PingData: BTreeMap<String, BTreeMap<DateTime<Utc>, Duration>>.          *)
(* A BTreeMap is a function on its key set.                                *)
(***************************************************************************)
EmptyMap == [k \in {} |-> 0]

\* BTreeMap::len
len(m) == Cardinality(DOMAIN m)

\* BTreeMap::insert: adds the key, or replaces the value of a key present.
insert(m, k, v) == [x \in (DOMAIN m) \cup {k} |-> IF x = k THEN v ELSE m[x]]

pop_last(m) ==
    IF DOMAIN m = {} THEN m
    ELSE [x \in (DOMAIN m) \ {Max(DOMAIN m)} |-> m[x]]

\* BTreeMap::pop_first: removes the entry with the smallest key, if any.
pop_first(m) ==
    IF DOMAIN m = {} THEN m
    ELSE [x \in (DOMAIN m) \ {Min(DOMAIN m)} |-> m[x]]

\* PingData::add_hostname
add_hostname(d, hostname) == insert(d, hostname, EmptyMap)

add_entry_no_evict(d, hostname, when, how_long) ==
    [d EXCEPT ![hostname] = insert(d[hostname], when, how_long)]

\* PingData::add_entry; the caller has checked that `hostname` is a key
\* (get_mut(hostname).unwrap() panics otherwise).
add_entry(d, hostname, when, how_long) ==
    LET ping_results == d[hostname]
        kept == IF len(ping_results) >= MAX_ENTRIES_SAVED
                THEN pop_first(ping_results)
                ELSE ping_results
    IN  [d EXCEPT ![hostname] = insert(kept, when, how_long)]

(***************************************************************************)
(* The values the variables of the other parts keep while one part of the  *)
(* program is checked on its own.                                          *)
(***************************************************************************)
NoPacket == [proto |-> 0, src |-> 0, total_len |-> 0, type |-> 0, code |-> 0,
             checksum |-> 0, id |-> 0, seq |-> 0, at |-> 0]
NoFilterInput == [pkt |-> NoPacket, src_ip_v4 |-> 0, echo_id |-> 0]
NoRetention == [max_entries |-> 0, probes |-> 0, oldest |-> 0]
NoRender == [pc |-> "idle", i |-> 0, html |-> <<>>, seen |-> <<>>, renders |-> 0]
NoMessage == [msg_type |-> 0, code |-> 0, checksum |-> 0, identifier |-> 0,
              sequence_number |-> 0, data |-> <<>>]
NoCodec == [stage |-> "none", identifier |-> 0, sequence_number |-> 0,
            message |-> NoMessage, buf |-> <<>>, result |-> "",
            decoded |-> NoMessage]

(***************************************************************************)
(* The store on its own: any sequence of add_hostname / add_entry calls.   *)
(***************************************************************************)
StoreInit ==
    /\ now = 0
    /\ args = <<>>
    /\ main_i = 0
    /\ data = EmptyMap
    /\ mutex = 0
    /\ loop = <<>>
    /\ socket = <<>>
    /\ exited = FALSE
    /\ inserted = [h \in Hostnames |-> <<>>]
    /\ bpf_in = NoFilterInput
    /\ bpf_ret = -1
    /\ render = NoRender
    /\ codec = NoCodec
    /\ retention = NoRetention

StoreUnchanged == UNCHANGED <<now, args, main_i, mutex, loop, socket, exited,
                              bpf_in, bpf_ret, render, codec, retention>>

TotalInserts == Len(inserted["a"]) + Len(inserted["b"])

AddHostnameCall(h) ==
    /\ data' = add_hostname(data, h)
    /\ inserted' = [inserted EXCEPT ![h] = <<>>]
    /\ StoreUnchanged

\* The durations are payloads add_entry never inspects: the i-th call for a
\* hostname carries 10 * i, so that its samples can be told apart.
AddEntryCall(h, when) ==
    LET how_long == 10 * (Len(inserted[h]) + 1) IN
    /\ h \in DOMAIN data
    /\ TotalInserts < MaxInserts
    /\ data' = add_entry(data, h, when, how_long)
    /\ inserted' = [inserted EXCEPT ![h] = Append(@, <<when, how_long>>)]
    /\ StoreUnchanged

StoreNext ==
    \/ \E h \in Hostnames : AddHostnameCall(h)
    \/ \E h \in Hostnames, when \in 1..MaxStamp : AddEntryCall(h, when)

SpecStore == StoreInit /\ [][StoreNext]_vars

StrictlyIncreasing(s) == \A i \in 1..(Len(s) - 1) : s[i][1] < s[i + 1][1]

\* C1: after any sequence of add_hostname / add_entry calls, every
\* hostname's series holds at most MAX_ENTRIES_SAVED entries.
C1_SizeBounded ==
    \A h \in DOMAIN data : len(data[h]) <= MAX_ENTRIES_SAVED

\* C1's case: a series that was full when add_entry was called again.
C1_Witness ==
    \E h \in DOMAIN data :
        /\ Len(inserted[h]) > MAX_ENTRIES_SAVED
        /\ len(data[h]) = MAX_ENTRIES_SAVED

\* C2: after N + k add_entry calls (k >= 1) with strictly increasing
\* timestamps the series holds exactly N = MAX_ENTRIES_SAVED samples, and
\* they are the N inserted last: the k inserted first are the ones dropped.
C2_NewestSurvive ==
    \A h \in DOMAIN data :
        LET s == inserted[h] IN
        (StrictlyIncreasing(s) /\ Len(s) > MAX_ENTRIES_SAVED) =>
            LET newest == (Len(s) - MAX_ENTRIES_SAVED + 1)..Len(s) IN
            /\ len(data[h]) = MAX_ENTRIES_SAVED
            /\ DOMAIN data[h] = {s[i][1] : i \in newest}
            /\ \A i \in newest : data[h][s[i][1]] = s[i][2]

C2_Witness ==
    \E h \in DOMAIN data :
        /\ StrictlyIncreasing(inserted[h])
        /\ Len(inserted[h]) > MAX_ENTRIES_SAVED
        /\ inserted[h][1][1] \notin DOMAIN data[h]

(***************************************************************************)
(* filter_icmp_replies: the ICMP_FILTER bitmask and the BPF program.       *)
(*                                                                         *)
(* A packet is the record of the header fields the program and the probe   *)
(* loop read, with the offsets of the source:                              *)
(*   IP:   total_len (2..3), proto (9), src (12..15)                       *)
(*   ICMP: type (20), code (21), checksum (22..23), id (24..25),           *)
(*         seq (26..27)                                                    *)
(* total_len is also the number of bytes recv_from returns for it, and     *)
(* `at` is the time the packet reached the socket.                         *)
(***************************************************************************)
IPPROTO_ICMP == 1
ICMP_ECHOREPLY == 0
PacketSize == IP_HEADER_SIZE + ICMP_MSG_SIZE

\* The bitmask !(1 << 0): the kernel drops the types 0..31 whose bit is set,
\* which leaves type 0 (and the types above 31, which have no bit).
icmp_filter_passes(pkt) == pkt.type = 0 \/ pkt.type > 31

\* The value a load instruction puts in the accumulator: ldb/ldh/ld of the
\* packet at offset k; -1 when the load runs past the packet's end (the
\* kernel then ends the program with 0).
bpf_load(op, k, pkt) ==
    LET width == CASE op = "ldb" -> 1 [] op = "ldh" -> 2 [] OTHER -> 4 IN
    IF k + width > pkt.total_len THEN -1
    ELSE CASE op = "ldh" /\ k = 2  -> pkt.total_len
           [] op = "ldb" /\ k = 9  -> pkt.proto
           [] op = "ld"  /\ k = 12 -> pkt.src
           [] op = "ldb" /\ k = 20 -> pkt.type
           [] op = "ldb" /\ k = 21 -> pkt.code
           [] op = "ldb" /\ k = 22 -> pkt.checksum \div 256
           [] op = "ldb" /\ k = 23 -> pkt.checksum % 256
           [] op = "ldh" /\ k = 24 -> pkt.id
           [] op = "ldh" /\ k = 26 -> pkt.seq
           [] OTHER -> 0

Insn(op, jt, jf, k) == [op |-> op, jt |-> jt, jf |-> jf, k |-> k]

\* The program of filter_icmp_replies, instruction by instruction
\* (0x30 ldb, 0x28 ldh, 0x20 ld, 0x15 jeq, 0x6 ret).
bpf_bytecode(src_ip_v4, icmp_msg_size, echo_id) == <<
    Insn("ldb", 0, 0, 9),                 \* k: 0x09
    Insn("jeq", 0, 11, IPPROTO_ICMP),
    Insn("ld",  0, 0, 12),                \* k: 0x0c
    Insn("jeq", 0, 9, src_ip_v4),
    Insn("ldh", 0, 0, 2),
    Insn("jeq", 0, 7, IP_HEADER_SIZE + icmp_msg_size),
    Insn("ldb", 0, 0, 20),                \* k: 0x14
    Insn("jeq", 0, 5, ICMP_ECHOREPLY),
    Insn("ldb", 0, 0, 22),                \* k: 0x16
    Insn("jeq", 0, 3 * 0, 0),             \* jf: 3 * 0
    Insn("ldh", 0, 0, 24),                \* k: 0x18
    Insn("jeq", 0, 1, echo_id),
    Insn("ret", 0, 0, IP_HEADER_SIZE + icmp_msg_size),
    Insn("ret", 0, 0, 0) >>

\* The kernel's interpreter on the instructions used: a load sets the
\* accumulator, jeq skips jt or jf instructions, ret ends with k.
RECURSIVE bpf_run(_, _, _, _)
bpf_run(prog, pkt, pc, acc) ==
    LET insn == prog[pc + 1] IN
    CASE insn.op = "ret" -> insn.k
      [] insn.op = "jeq" ->
            bpf_run(prog, pkt, pc + 1 + (IF acc = insn.k THEN insn.jt ELSE insn.jf), acc)
      [] OTHER ->
            LET v == bpf_load(insn.op, insn.k, pkt) IN
            IF v < 0 THEN 0 ELSE bpf_run(prog, pkt, pc + 1, v)

\* What the attached program returns for a packet: 0 drops it, any other
\* value delivers it (cut to that many bytes).
bpf_filter(pkt, src_ip_v4, icmp_msg_size, echo_id) ==
    bpf_run(bpf_bytecode(src_ip_v4, icmp_msg_size, echo_id), pkt, 0, 0)

(***************************************************************************)
(* The filter program on its own: one packet, one run.                     *)
(***************************************************************************)
IpAddrs == {1, 2}
EchoIds == {7, 9}

FilterPackets ==
    [proto : {IPPROTO_ICMP, 17}, src : IpAddrs,
     total_len : {PacketSize, PacketSize - 24}, type : {ICMP_ECHOREPLY, 3},
     code : {0, 1}, checksum : {4660, 52}, id : EchoIds, seq : {1}, at : {0}]

FilterInit ==
    /\ now = 0
    /\ args = <<>>
    /\ main_i = 0
    /\ data = EmptyMap
    /\ mutex = 0
    /\ loop = <<>>
    /\ socket = <<>>
    /\ exited = FALSE
    /\ inserted = [h \in Hostnames |-> <<>>]
    /\ bpf_in \in [pkt : FilterPackets, src_ip_v4 : IpAddrs, echo_id : EchoIds]
    /\ bpf_ret = -1
    /\ render = NoRender
    /\ codec = NoCodec
    /\ retention = NoRetention

RunFilter ==
    /\ bpf_ret = -1
    /\ bpf_ret' = bpf_filter(bpf_in.pkt, bpf_in.src_ip_v4, ICMP_MSG_SIZE,
                             bpf_in.echo_id)
    /\ UNCHANGED <<now, args, main_i, data, mutex, loop, socket, exited,
                   inserted, bpf_in, render, codec, retention>>

FilterNext == RunFilter

SpecFilter == FilterInit /\ [][FilterNext]_vars

\* The six conditions of the filter's contract.
SixConditions(pkt, src_ip_v4, icmp_msg_size, echo_id) ==
    /\ pkt.proto = IPPROTO_ICMP
    /\ pkt.src = src_ip_v4
    /\ pkt.total_len = icmp_msg_size + IP_HEADER_SIZE
    /\ pkt.type = 0
    /\ pkt.code = 0
    /\ pkt.id = echo_id

\* C3: the filter program accepts a packet if and only if protocol == ICMP,
\* source == src_ip_v4, total length == icmp_msg_size + 20, type == 0,
\* code == 0 and identifier == echo_id.
C3_FilterAcceptsIffSix ==
    bpf_ret # -1 =>
        ((bpf_ret # 0) <=>
            SixConditions(bpf_in.pkt, bpf_in.src_ip_v4, ICMP_MSG_SIZE,
                          bpf_in.echo_id))

(***************************************************************************)
(* main and repeatedly_ping.                                               *)
(*                                                                         *)
(* Thread t is the one main spawns for args[t].  loop[t] holds its locals  *)
(* and its position pc, and two records of the current iteration: rx, the  *)
(* packet that set response_recvd, and discarded_at, the arrival time of   *)
(* the last packet found not to match (-1: none).                          *)
(*                                                                         *)
(* Computation takes no time: the clock advances only while every thread   *)
(* is inside a blocking call (recv_from, lock, sleep).  The clock is       *)
(* rebased to the end of the setup, which therefore takes no time either.  *)
(***************************************************************************)
Threads == DOMAIN args

NewLoop(hostname) ==
    [pc |-> "unspawned", hostname |-> hostname, panic |-> "",
     unique_threadlocal_id |-> 0, sequence_number |-> 0, dest_ip_v4 |-> 0,
     start_time |-> 0, send_ok |-> FALSE, response_recvd |-> FALSE,
     recv_start |-> 0, rx |-> NoPacket, discarded_at |-> -1,
     ping_duration |-> 0, wake_at |-> 0]

NewSocket == [open |-> FALSE, icmp_filter |-> FALSE, bpf |-> FALSE, queue |-> <<>>]

Init ==
    /\ now = 0
    /\ args = <<"a">>
    /\ main_i = 0
    /\ data = EmptyMap
    /\ mutex = 0
    /\ loop = [t \in DOMAIN args |-> NewLoop(args[t])]
    /\ socket = [t \in DOMAIN args |-> NewSocket]
    /\ exited = FALSE
    /\ inserted = [h \in Hostnames |-> <<>>]
    /\ bpf_in = NoFilterInput
    /\ bpf_ret = -1
    /\ render = NoRender
    /\ codec = NoCodec
    /\ retention = NoRetention

StoreCheckUnchanged == UNCHANGED <<inserted, bpf_in, bpf_ret, render, codec,
                                   retention>>

Panic(t, why) == [loop EXCEPT ![t].pc = "panicked", ![t].panic = why]

\* The address lookup_host gives for a hostname: the hosts have distinct
\* addresses.
HostIp(hostname) == IF hostname = "a" THEN 1 ELSE 2

deadline(t) == loop[t].start_time + PING_TIMEOUT_MSEC

\* A variant that spawns the thread without registering its hostname.
MainSpawnUnregistered ==
    /\ ~exited
    /\ main_i < Len(args)
    /\ mutex = 0
    /\ loop' = [loop EXCEPT ![main_i + 1].pc = "resolve"]
    /\ main_i' = main_i + 1
    /\ UNCHANGED <<now, args, data, mutex, socket, exited>>
    /\ StoreCheckUnchanged

\* main, one turn of `for hostname in hostnames_to_ping`: add_hostname under
\* the lock, then thread::spawn.
MainSpawn ==
    /\ ~exited
    /\ main_i < Len(args)
    /\ mutex = 0
    /\ LET t == main_i + 1 IN
        /\ data' = add_hostname(data, args[t])
        /\ loop' = [loop EXCEPT ![t].pc = "resolve"]
    /\ main_i' = main_i + 1
    /\ UNCHANGED <<now, args, mutex, socket, exited>>
    /\ StoreCheckUnchanged

\* repeatedly_ping, up to dest_addr_v2: the random identifier, the counter,
\* the lookup.  No IPv4 address (or a failed lookup) panics the thread.
Resolve(t) ==
    /\ ~exited
    /\ loop[t].pc = "resolve"
    /\ \/ \E id \in EchoIds :
            loop' = [loop EXCEPT ![t].pc = "open_socket",
                                 ![t].unique_threadlocal_id = id,
                                 ![t].sequence_number = 0,
                                 ![t].dest_ip_v4 = HostIp(loop[t].hostname)]
       \/ loop' = Panic(t, "lookup")
    /\ UNCHANGED <<now, args, main_i, data, mutex, socket, exited>>
    /\ StoreCheckUnchanged

\* Socket::new(...).unwrap()
OpenSocket(t) ==
    /\ ~exited
    /\ loop[t].pc = "open_socket"
    /\ \/ /\ loop' = [loop EXCEPT ![t].pc = "icmp_filter"]
          /\ socket' = [socket EXCEPT ![t].open = TRUE]
       \/ /\ loop' = Panic(t, "socket")
          /\ UNCHANGED socket
    /\ UNCHANGED <<now, args, main_i, data, mutex, exited>>
    /\ StoreCheckUnchanged

\* filter_icmp_replies, the first setsockopt (ICMP_FILTER): its result is
\* not looked at.
SetIcmpFilter(t) ==
    /\ ~exited
    /\ loop[t].pc = "icmp_filter"
    /\ \E ok \in BOOLEAN :
          socket' = [socket EXCEPT ![t].icmp_filter = ok]
    /\ loop' = [loop EXCEPT ![t].pc = "attach_bpf"]
    /\ UNCHANGED <<now, args, main_i, data, mutex, exited>>
    /\ StoreCheckUnchanged

\* filter_icmp_replies, the second setsockopt (SO_ATTACH_FILTER): a result
\* other than 0 ends the process.  On success the timeouts are set and the
\* thread enters the loop.
AttachBpf(t) ==
    /\ ~exited
    /\ loop[t].pc = "attach_bpf"
    /\ \/ /\ socket' = [socket EXCEPT ![t].bpf = TRUE]
          /\ loop' = [loop EXCEPT ![t].pc = "loop_top"]
          /\ UNCHANGED exited
       \/ /\ exited' = TRUE
          /\ UNCHANGED <<loop, socket>>
    /\ UNCHANGED <<now, args, main_i, data, mutex>>
    /\ StoreCheckUnchanged

\* A variant in which a send error ends the thread.
LoopTopSendFatal(t) ==
    /\ ~exited
    /\ loop[t].pc = "loop_top"
    /\ \E overflow_checks \in BOOLEAN, sent \in BOOLEAN :
          IF loop[t].sequence_number = U16_MAX /\ overflow_checks
          THEN loop' = Panic(t, "overflow")
          ELSE IF ~sent
          THEN loop' = Panic(t, "send")
          ELSE loop' = [loop EXCEPT
                   ![t].pc = "while",
                   ![t].sequence_number = (loop[t].sequence_number + 1) % (U16_MAX + 1),
                   ![t].start_time = now,
                   ![t].send_ok = sent,
                   ![t].response_recvd = FALSE,
                   ![t].rx = NoPacket,
                   ![t].discarded_at = -1]
    /\ UNCHANGED <<now, args, main_i, data, mutex, socket, exited>>
    /\ StoreCheckUnchanged

\* The loop body up to the send: sequence_number += 1 (a build with overflow
\* checks panics at 65535, one without wraps to 0), start_time, the request,
\* send_to (its error is only logged), response_recvd = false.
LoopTop(t) ==
    /\ ~exited
    /\ loop[t].pc = "loop_top"
    /\ \E overflow_checks \in BOOLEAN, sent \in BOOLEAN :
          IF loop[t].sequence_number = U16_MAX /\ overflow_checks
          THEN loop' = Panic(t, "overflow")
          ELSE loop' = [loop EXCEPT
                   ![t].pc = "while",
                   ![t].sequence_number = (loop[t].sequence_number + 1) % (U16_MAX + 1),
                   ![t].start_time = now,
                   ![t].send_ok = sent,
                   ![t].response_recvd = FALSE,
                   ![t].rx = NoPacket,
                   ![t].discarded_at = -1]
    /\ UNCHANGED <<now, args, main_i, data, mutex, socket, exited>>
    /\ StoreCheckUnchanged

\* while Utc::now() < deadline && !response_recvd: enter recv_from, or leave.
WhileCheck(t) ==
    /\ ~exited
    /\ loop[t].pc = "while"
    /\ loop' = IF now < deadline(t) /\ ~loop[t].response_recvd
               THEN [loop EXCEPT ![t].pc = "recv", ![t].recv_start = now]
               ELSE [loop EXCEPT ![t].pc = "measure"]
    /\ UNCHANGED <<now, args, main_i, data, mutex, socket, exited>>
    /\ StoreCheckUnchanged

\* The test of the decoded response.
matching_response_found(response, unique_threadlocal_id, sequence_number) ==
    /\ response.type = 0
    /\ response.code = 0
    /\ response.id = unique_threadlocal_id
    /\ response.seq = sequence_number

\* recv_from returns Ok((size, _)): the packet at the head of the queue, if
\* it came before the read timeout of this call ran out.  Slicing
\* [IP_HEADER_SIZE..size] and IcmpEchoMessage::from panic on fewer than
\* 20 + 64 bytes.
RecvOk(t) ==
    /\ ~exited
    /\ loop[t].pc = "recv"
    /\ socket[t].queue # <<>>
    /\ LET pkt == Head(socket[t].queue)
           found == matching_response_found(pkt, loop[t].unique_threadlocal_id,
                                            loop[t].sequence_number)
       IN
        /\ pkt.at <= loop[t].recv_start + PING_TIMEOUT_MSEC
        /\ loop' = IF pkt.total_len < IP_HEADER_SIZE + ICMP_MSG_SIZE
                   THEN Panic(t, "decode")
                   ELSE [loop EXCEPT
                           ![t].pc = "while",
                           ![t].response_recvd = found,
                           ![t].rx = IF found THEN pkt ELSE NoPacket,
                           ![t].discarded_at =
                               IF found THEN loop[t].discarded_at ELSE pkt.at]
    /\ socket' = [socket EXCEPT ![t].queue = Tail(@)]
    /\ UNCHANGED <<now, args, main_i, data, mutex, exited>>
    /\ StoreCheckUnchanged

\* A variant in which a receive error ends the wait.
RecvErrEndsWait(t) ==
    /\ ~exited
    /\ loop[t].pc = "recv"
    /\ loop' = [loop EXCEPT ![t].pc = "measure", ![t].response_recvd = FALSE,
                            ![t].rx = NoPacket]
    /\ UNCHANGED <<now, args, main_i, data, mutex, socket, exited>>
    /\ StoreCheckUnchanged

\* recv_from returns Err (the read timeout, or any other error).
RecvErr(t) ==
    /\ ~exited
    /\ loop[t].pc = "recv"
    /\ loop' = [loop EXCEPT ![t].pc = "while", ![t].response_recvd = FALSE,
                            ![t].rx = NoPacket]
    /\ UNCHANGED <<now, args, main_i, data, mutex, socket, exited>>
    /\ StoreCheckUnchanged

\* A variant that measures from the last recv_from call.
MeasureFromRecvStart(t) ==
    /\ ~exited
    /\ loop[t].pc = "measure"
    /\ loop' = [loop EXCEPT ![t].pc = "lock",
                            ![t].ping_duration = now - loop[t].recv_start]
    /\ UNCHANGED <<now, args, main_i, data, mutex, socket, exited>>
    /\ StoreCheckUnchanged

\* ping_duration = (Utc::now() - start_time)
Measure(t) ==
    /\ ~exited
    /\ loop[t].pc = "measure"
    /\ loop' = [loop EXCEPT ![t].pc = "lock",
                            ![t].ping_duration = now - loop[t].start_time]
    /\ UNCHANGED <<now, args, main_i, data, mutex, socket, exited>>
    /\ StoreCheckUnchanged

\* A variant that enters the store without waiting for the mutex.
LockWithoutWaiting(t) ==
    /\ ~exited
    /\ loop[t].pc = "lock"
    /\ mutex' = t
    /\ loop' = [loop EXCEPT ![t].pc = "add_entry"]
    /\ UNCHANGED <<now, args, main_i, data, socket, exited>>
    /\ StoreCheckUnchanged

\* ping_data.lock()
Lock(t) ==
    /\ ~exited
    /\ loop[t].pc = "lock"
    /\ mutex = 0
    /\ mutex' = t
    /\ loop' = [loop EXCEPT ![t].pc = "add_entry"]
    /\ UNCHANGED <<now, args, main_i, data, socket, exited>>
    /\ StoreCheckUnchanged

\* A variant that stores the sample under the time of recording.
AddEntryStampedNow(t) ==
    /\ ~exited
    /\ loop[t].pc = "add_entry"
    /\ IF loop[t].hostname \in DOMAIN data
       THEN /\ data' = add_entry(data, loop[t].hostname, now,
                                 loop[t].ping_duration)
            /\ loop' = [loop EXCEPT ![t].pc = "sleep_calc"]
       ELSE /\ loop' = Panic(t, "unregistered")
            /\ UNCHANGED data
    /\ mutex' = 0
    /\ UNCHANGED <<now, args, main_i, socket, exited>>
    /\ StoreCheckUnchanged

\* A variant that passes the duration where the timestamp belongs.
AddEntryKeyedByDuration(t) ==
    /\ ~exited
    /\ loop[t].pc = "add_entry"
    /\ IF loop[t].hostname \in DOMAIN data
       THEN /\ data' = add_entry(data, loop[t].hostname, loop[t].ping_duration,
                                 loop[t].start_time)
            /\ loop' = [loop EXCEPT ![t].pc = "sleep_calc"]
       ELSE /\ loop' = Panic(t, "unregistered")
            /\ UNCHANGED data
    /\ mutex' = 0
    /\ UNCHANGED <<now, args, main_i, socket, exited>>
    /\ StoreCheckUnchanged

\* .add_entry(&hostname, start_time, ping_duration), and the guard dropped.
AddEntry(t) ==
    /\ ~exited
    /\ loop[t].pc = "add_entry"
    /\ IF loop[t].hostname \in DOMAIN data
       THEN /\ data' = add_entry(data, loop[t].hostname, loop[t].start_time,
                                 loop[t].ping_duration)
            /\ loop' = [loop EXCEPT ![t].pc = "sleep_calc"]
       ELSE /\ loop' = Panic(t, "unregistered")
            /\ UNCHANGED data
    /\ mutex' = 0
    /\ UNCHANGED <<now, args, main_i, socket, exited>>
    /\ StoreCheckUnchanged

\* A variant whose sleep target is the deadline plus the interval.
SleepCalcFromDeadline(t) ==
    /\ ~exited
    /\ loop[t].pc = "sleep_calc"
    /\ LET next_ping_time == deadline(t) + ProbeIntervalMs
           cur_time == now
       IN  loop' = IF next_ping_time > cur_time
                   THEN [loop EXCEPT ![t].pc = "sleeping",
                                     ![t].wake_at = now + (next_ping_time - cur_time)]
                   ELSE [loop EXCEPT ![t].pc = "loop_top"]
    /\ UNCHANGED <<now, args, main_i, data, mutex, socket, exited>>
    /\ StoreCheckUnchanged

\* next_ping_time, cur_time, and thread::sleep when next_ping_time is ahead.
SleepCalc(t) ==
    /\ ~exited
    /\ loop[t].pc = "sleep_calc"
    /\ LET next_ping_time == loop[t].start_time + ProbeIntervalMs
           cur_time == now
       IN  loop' = IF next_ping_time > cur_time
                   THEN [loop EXCEPT ![t].pc = "sleeping",
                                     ![t].wake_at = now + (next_ping_time - cur_time)]
                   ELSE [loop EXCEPT ![t].pc = "loop_top"]
    /\ UNCHANGED <<now, args, main_i, data, mutex, socket, exited>>
    /\ StoreCheckUnchanged

\* thread::sleep returns, no earlier than asked.
Wake(t) ==
    /\ ~exited
    /\ loop[t].pc = "sleeping"
    /\ now >= loop[t].wake_at
    /\ loop' = [loop EXCEPT ![t].pc = "loop_top"]
    /\ UNCHANGED <<now, args, main_i, data, mutex, socket, exited>>
    /\ StoreCheckUnchanged

(***************************************************************************)
(* The environment: the clock, and the packets that reach a socket.        *)
(***************************************************************************)
\* The echo reply to the request thread t sent last.
Reply(t) ==
    [proto |-> IPPROTO_ICMP, src |-> loop[t].dest_ip_v4, total_len |-> PacketSize,
     type |-> ICMP_ECHOREPLY, code |-> 0, checksum |-> 52,
     id |-> loop[t].unique_threadlocal_id, seq |-> loop[t].sequence_number,
     at |-> now]

\* Other ICMP traffic to this host: the reply with one field changed, and a
\* packet of another host that carries the loop's identifier and the
\* sequence number of its next request.
Strays(t) ==
    { [Reply(t) EXCEPT !.src = 3 - loop[t].dest_ip_v4],
      [Reply(t) EXCEPT !.src = 3 - loop[t].dest_ip_v4,
                       !.seq = (loop[t].sequence_number + 1) % (U16_MAX + 1)],
      [Reply(t) EXCEPT !.total_len = PacketSize - 24],
      [Reply(t) EXCEPT !.type = 3],
      [Reply(t) EXCEPT !.code = 1],
      [Reply(t) EXCEPT !.id = 16 - loop[t].unique_threadlocal_id],
      [Reply(t) EXCEPT !.seq = (loop[t].sequence_number + U16_MAX) % (U16_MAX + 1)] }

\* What the kernel queues on thread t's socket: every ICMP packet to the
\* host, less what the filters set so far drop.
Delivered(t, pkt) ==
    /\ socket[t].icmp_filter => icmp_filter_passes(pkt)
    /\ socket[t].bpf =>
          bpf_filter(pkt, loop[t].dest_ip_v4, ICMP_MSG_SIZE,
                     loop[t].unique_threadlocal_id) # 0

Arrive(t, pkt) ==
    /\ ~exited
    /\ socket[t].open
    /\ loop[t].pc # "panicked"
    /\ Len(socket[t].queue) < MaxQueue
    /\ Delivered(t, pkt)
    /\ socket' = [socket EXCEPT ![t].queue = Append(@, pkt)]
    /\ UNCHANGED <<now, args, main_i, data, mutex, loop, exited>>
    /\ StoreCheckUnchanged

\* The remote answers a request that was sent.
ArriveReply(t) ==
    /\ loop[t].send_ok
    /\ Arrive(t, Reply(t))

ArriveStray(t) == \E pkt \in Strays(t) : Arrive(t, pkt)

\* recv_from has a packet to return now.
RecvReady(t) ==
    /\ loop[t].pc = "recv"
    /\ socket[t].queue # <<>>
    /\ Head(socket[t].queue).at <= loop[t].recv_start + PING_TIMEOUT_MSEC

\* Thread t lets time pass: it has panicked, or it is inside lock,
\* thread::sleep, or a recv_from that has nothing to return and whose read
\* timeout has not run out.
Blocked(t) ==
    \/ loop[t].pc \in {"panicked", "lock", "sleeping"}
    \/ /\ loop[t].pc = "recv"
       /\ ~RecvReady(t)
       /\ now < loop[t].recv_start + PING_TIMEOUT_MSEC

Tick ==
    /\ ~exited
    /\ \A t \in Threads : Blocked(t)
    /\ now + TickMs <= MaxTime
    /\ now' = now + TickMs
    /\ UNCHANGED <<args, main_i, data, mutex, loop, socket, exited>>
    /\ StoreCheckUnchanged

LoopNext ==
    \/ \E t \in Threads : LoopTop(t)
    \/ \E t \in Threads : WhileCheck(t)
    \/ \E t \in Threads : RecvOk(t)
    \/ \E t \in Threads : RecvErr(t)
    \/ \E t \in Threads : Measure(t)
    \/ \E t \in Threads : Lock(t)
    \/ \E t \in Threads : AddEntry(t)
    \/ \E t \in Threads : SleepCalc(t)
    \/ \E t \in Threads : Wake(t)

SetupNext ==
    \/ MainSpawn
    \/ \E t \in Threads : Resolve(t)
    \/ \E t \in Threads : OpenSocket(t)
    \/ \E t \in Threads : SetIcmpFilter(t)
    \/ \E t \in Threads : AttachBpf(t)

NetworkNext ==
    \/ \E t \in Threads : ArriveReply(t)
    \/ \E t \in Threads : ArriveStray(t)

Next == SetupNext \/ LoopNext \/ NetworkNext \/ Tick

Spec == Init /\ [][Next]_vars

(***************************************************************************)
(* Claims about the probe loop.                                            *)
(***************************************************************************)
HasResult(t) == loop[t].pc \in {"measure", "lock", "add_entry", "sleep_calc"}
Measured(t) == loop[t].pc \in {"lock", "add_entry", "sleep_calc"}
Recorded(t) == loop[t].pc = "sleep_calc"

\* The six checks of a received candidate.
SixChecks(pkt, t) ==
    /\ pkt.src = loop[t].dest_ip_v4
    /\ pkt.total_len = IP_HEADER_SIZE + ICMP_MSG_SIZE
    /\ pkt.type = 0
    /\ pkt.code = 0
    /\ pkt.id = loop[t].unique_threadlocal_id
    /\ pkt.seq = loop[t].sequence_number

\* C4: an iteration is ended as matched only by a received packet that has
\* the destination as its source, the expected size, type 0, code 0, the
\* loop's identifier and the sequence number just sent; any other packet is
\* discarded and the loop goes on receiving.
C4_MatchedOnlyBySixChecks ==
    \A t \in Threads :
        /\ loop[t].response_recvd => SixChecks(loop[t].rx, t)
        /\ loop[t].panic # "decode"

\* C5: the deadline start_time + PING_TIMEOUT_MSEC bounds the wait: the
\* loop has left the receive loop by the deadline, and a reply that reaches
\* the socket after the deadline never ends an iteration as matched.
C5_DeadlineIsHard ==
    \A t \in Threads :
        /\ loop[t].pc = "measure" => now <= deadline(t)
        /\ loop[t].response_recvd => loop[t].rx.at <= deadline(t)

\* C6: the sample an iteration records has a duration of at least
\* PING_TIMEOUT_MSEC (what the page marks TimedOut) if and only if the
\* iteration ended without a matching reply.
C6_TimedOutIffNoReply ==
    \A t \in Threads :
        Recorded(t) =>
            LET series == data[loop[t].hostname] IN
            /\ loop[t].start_time \in DOMAIN series
            /\ (series[loop[t].start_time] >= PING_TIMEOUT_MSEC)
                   <=> ~loop[t].response_recvd

\* C7: a probe is never sent earlier than ProbeIntervalMs after the one
\* before it; a loop that sleeps sleeps until start_time + ProbeIntervalMs
\* (the timeout is not added), and it sleeps exactly when that time is
\* still ahead: otherwise it goes straight to the next probe.
C7_SleepTarget ==
    \A t \in Threads :
        loop[t].pc = "sleeping" =>
            loop[t].wake_at = loop[t].start_time + ProbeIntervalMs

C7_Steps ==
    \A t \in Threads :
        /\ (loop[t].pc = "loop_top" /\ loop'[t].pc = "while"
               /\ loop[t].sequence_number >= 1)
              => loop'[t].start_time >= loop[t].start_time + ProbeIntervalMs
        /\ (loop[t].pc = "sleep_calc" /\ loop'[t].pc = "sleeping")
              => now < loop[t].start_time + ProbeIntervalMs
        /\ (loop[t].pc = "sleep_calc" /\ loop'[t].pc = "loop_top")
              => now >= loop[t].start_time + ProbeIntervalMs
        /\ loop[t].pc = "sleep_calc" => loop'[t].pc \in {"sleep_calc", "sleeping", "loop_top"}

C7_ProbeCadence == []C7_SleepTarget /\ [][C7_Steps]_vars

\* C7's case: the second probe, sent when the sleep ended.
C7_Witness ==
    \E t \in Threads :
        /\ loop[t].pc = "while"
        /\ loop[t].sequence_number = 2
        /\ loop[t].start_time = ProbeIntervalMs
        /\ loop[t].wake_at = ProbeIntervalMs

\* C10: when a non-matching packet was discarded and a matching one came
\* before the deadline, the iteration ends as matched, its duration is the
\* time from the send to the arrival of the matching packet, and the sample
\* is stored under the send time.
C10_DurationToMatchingPacket ==
    \A t \in Threads :
        (loop[t].response_recvd /\ loop[t].discarded_at >= 0
            /\ loop[t].rx.at < deadline(t)) =>
            /\ loop[t].rx.id = loop[t].unique_threadlocal_id
            /\ loop[t].rx.seq = loop[t].sequence_number
            /\ Measured(t) =>
                  loop[t].ping_duration = loop[t].rx.at - loop[t].start_time
            /\ Recorded(t) =>
                  /\ loop[t].start_time \in DOMAIN data[loop[t].hostname]
                  /\ data[loop[t].hostname][loop[t].start_time]
                         = loop[t].rx.at - loop[t].start_time

\* C10's case: the discarded packet came strictly before the matching one,
\* and the sample is stored.
C10_Witness ==
    \E t \in Threads :
        /\ Recorded(t)
        /\ loop[t].response_recvd
        /\ loop[t].discarded_at >= loop[t].start_time
        /\ loop[t].discarded_at < loop[t].rx.at
        /\ loop[t].rx.at < deadline(t)

(***************************************************************************)
(* The loop late in its life: the state at the top of the iteration that   *)
(* follows 65534 completed ones, with the clock rebased to 0.  The store   *)
(* holds the samples of the last MAX_ENTRIES_SAVED iterations.             *)
(***************************************************************************)
WrapInit ==
    /\ now = 0
    /\ args = <<"a">>
    /\ main_i = 1
    /\ data = [h \in {"a"} |->
                 [s \in {-k * ProbeIntervalMs : k \in 1..MAX_ENTRIES_SAVED}
                     |-> PING_TIMEOUT_MSEC]]
    /\ mutex = 0
    /\ \E id \in EchoIds :
          loop = [t \in {1} |->
                    [NewLoop("a") EXCEPT
                        !.pc = "loop_top",
                        !.unique_threadlocal_id = id,
                        !.sequence_number = U16_MAX - 1,
                        !.dest_ip_v4 = HostIp("a"),
                        !.start_time = -ProbeIntervalMs,
                        !.ping_duration = PING_TIMEOUT_MSEC,
                        !.wake_at = 0]]
    /\ socket = [t \in {1} |->
                    [open |-> TRUE, icmp_filter |-> TRUE, bpf |-> TRUE,
                     queue |-> <<>>]]
    /\ exited = FALSE
    /\ inserted = [h \in Hostnames |-> <<>>]
    /\ bpf_in = NoFilterInput
    /\ bpf_ret = -1
    /\ render = NoRender
    /\ codec = NoCodec
    /\ retention = NoRetention

WrapNext == LoopNext \/ NetworkNext \/ Tick

SpecWrap == WrapInit /\ [][WrapNext]_vars

\* C8: the loop tolerates the wrap of its 16-bit sequence number: the
\* iteration that follows the one numbered 65535 still sends a probe
\* instead of ending the loop.
C8_WrapTolerated ==
    \A t \in Threads : loop[t].panic # "overflow"

(***************************************************************************)
(* The worked example: probes at 0, 5, 10 and 15 s, replies at 0.010 s,    *)
(* never, 10.020 s and 15.005 s.  The reply stream is scripted, and no     *)
(* time is spent outside recv_from and thread::sleep, which ends on time.  *)
(***************************************************************************)
ExampleReplyAt == <<10, -1, 10020, 15005>>
ExampleEnd == ExampleReplyAt[Len(ExampleReplyAt)]

ReplyDue(t) ==
    /\ loop[t].pc = "recv"
    /\ loop[t].sequence_number \in DOMAIN ExampleReplyAt
    /\ now = ExampleReplyAt[loop[t].sequence_number]
    /\ socket[t].queue = <<>>

ExampleReply(t) ==
    /\ ReplyDue(t)
    /\ Arrive(t, Reply(t))

ExampleBlocked(t) ==
    \/ loop[t].pc = "panicked"
    \/ loop[t].pc = "sleeping" /\ now < loop[t].wake_at
    \/ /\ loop[t].pc = "recv"
       /\ ~RecvReady(t)
       /\ ~ReplyDue(t)
       /\ now < loop[t].recv_start + PING_TIMEOUT_MSEC

\* The instants at which something can happen next.
ExampleInstants ==
    {now + TickMs - (now % TickMs)}
    \cup {ExampleReplyAt[i] : i \in DOMAIN ExampleReplyAt}
    \cup {loop[t].wake_at : t \in Threads}
    \cup {loop[t].recv_start + PING_TIMEOUT_MSEC : t \in Threads}

ExampleTick ==
    /\ ~exited
    /\ \A t \in Threads : ExampleBlocked(t)
    /\ now < ExampleEnd
    /\ now' = Min({i \in ExampleInstants : i > now})
    /\ UNCHANGED <<args, main_i, data, mutex, loop, socket, exited>>
    /\ StoreCheckUnchanged

ExampleNext ==
    \/ SetupNext
    \/ LoopNext
    \/ \E t \in Threads : ExampleReply(t)
    \/ ExampleTick

SpecExample == Init /\ [][ExampleNext]_vars

ExampleDone(t) ==
    /\ loop[t].sequence_number = Len(ExampleReplyAt)
    /\ loop[t].pc \in {"sleep_calc", "sleeping"}

\* C9: with an interval of 5 s, a timeout of 1000 ms and room for 3 samples,
\* probes at 0, 5, 10, 15 s answered at 0.010 s, never, 10.020 s and
\* 15.005 s leave exactly the samples (5 s, timed out), (10 s, 20 ms) and
\* (15 s, 5 ms): the sample of 0 s is evicted.
C9_WorkedExample ==
    (MAX_ENTRIES_SAVED = 3 /\ SEC_BETWEEN_PINGS = 5 /\ PING_TIMEOUT_MSEC = 1000) =>
        \A t \in Threads :
            ExampleDone(t) =>
                LET series == data[loop[t].hostname] IN
                /\ DOMAIN series = {5000, 10000, 15000}
                /\ series[5000] >= PING_TIMEOUT_MSEC
                /\ series[10000] = 20
                /\ series[15000] = 5

C9_Witness ==
    \E t \in Threads :
        /\ ExampleDone(t)
        /\ now = ExampleEnd
        /\ len(data[loop[t].hostname]) = 3

(***************************************************************************)
(* Several probe loops and the page handler `index` on one PingData.       *)
(*                                                                         *)
(* The command line names two hosts, or one host twice.  Each loop runs    *)
(* one iteration; the handler serves up to MaxRenders requests once main   *)
(* has started the server, which is after its `for` loop.  render.html     *)
(* holds the series the handler has read, one per hostname heading so far, *)
(* and render.seen is the store as it was when the handler took the lock.  *)
(***************************************************************************)
ShareEnd == 500         \* the clock stops at ShareEnd
MaxRenders == 1         \* requests the page handler serves

\* The value of `mutex` while index holds the lock.
Reader == -1

ShareInit ==
    /\ now = 0
    /\ args \in {<<"a", "b">>, <<"a", "a">>}
    /\ main_i = 0
    /\ data = EmptyMap
    /\ mutex = 0
    /\ loop = [t \in DOMAIN args |-> NewLoop(args[t])]
    /\ socket = [t \in DOMAIN args |-> NewSocket]
    /\ exited = FALSE
    /\ inserted = [h \in Hostnames |-> <<>>]
    /\ bpf_in = NoFilterInput
    /\ bpf_ret = -1
    /\ render = NoRender
    /\ codec = NoCodec
    /\ retention = NoRetention

RenderUnchanged == UNCHANGED <<now, args, main_i, data, loop, socket, exited,
                               inserted, bpf_in, bpf_ret, codec, retention>>

\* index: ping_data.lock().unwrap()
RenderLock ==
    /\ ~exited
    /\ main_i = Len(args)
    /\ render.pc = "idle"
    /\ render.renders < MaxRenders
    /\ mutex = 0
    /\ mutex' = Reader
    /\ render' = [render EXCEPT !.pc = "locked", !.i = 0, !.html = <<>>,
                                !.seen = data]
    /\ RenderUnchanged

\* index, one turn of the second `for hostname in &hostnames_in_order`.
RenderHost ==
    /\ ~exited
    /\ render.pc = "locked"
    /\ render.i < Len(args)
    /\ LET hostname == args[render.i + 1] IN
        /\ hostname \in DOMAIN data
        /\ render' = [render EXCEPT !.i = @ + 1,
                                    !.html = Append(@, data[hostname])]
    /\ UNCHANGED mutex
    /\ RenderUnchanged

\* index: the end of the scope that holds the guard.
RenderUnlock ==
    /\ ~exited
    /\ render.pc = "locked"
    /\ render.i = Len(args)
    /\ mutex' = 0
    /\ render' = [NoRender EXCEPT !.renders = render.renders + 1]
    /\ RenderUnchanged

RenderNext == RenderLock \/ RenderHost \/ RenderUnlock

ShareTick ==
    /\ ~exited
    /\ \A t \in Threads : Blocked(t)
    /\ render.pc = "idle"
    /\ now < ShareEnd
    /\ now' = now + TickMs
    /\ UNCHANGED <<args, main_i, data, mutex, loop, socket, exited>>
    /\ StoreCheckUnchanged

\* One iteration of each loop: the sleep that ends it does not return
\* before the clock stops.
ShareLoopNext ==
    \/ \E t \in Threads : LoopTop(t)
    \/ \E t \in Threads : WhileCheck(t)
    \/ \E t \in Threads : RecvOk(t)
    \/ \E t \in Threads : RecvErr(t)
    \/ \E t \in Threads : Measure(t)
    \/ \E t \in Threads : Lock(t)
    \/ \E t \in Threads : AddEntry(t)
    \/ \E t \in Threads : SleepCalc(t)

ShareNext ==
    \/ SetupNext
    \/ ShareLoopNext
    \/ \E t \in Threads : ArriveReply(t)
    \/ RenderNext
    \/ ShareTick

SpecShare == ShareInit /\ [][ShareNext]_vars

\* Thread t has sent a request carrying its identifier.
Probing(t) == loop[t].sequence_number >= 1

\* C11: no two probe loops of the process use the same echo identifier.
C11_PrivateIdentifiers ==
    \A t1, t2 \in Threads :
        (t1 # t2 /\ Probing(t1) /\ Probing(t2)) =>
            loop[t1].unique_threadlocal_id # loop[t2].unique_threadlocal_id

(***************************************************************************)
(* IcmpEchoMessage: new, populate_checksum, serialize, from.               *)
(* A buffer is a sequence of bytes, a message a record of its fields.      *)
(***************************************************************************)
\* u16::to_be_bytes
to_be_bytes(x) == <<x \div 256, x % 256>>

\* read_u16::<BigEndian> at byte i (from 1) of a buffer.
read_u16(buf, i) == buf[i] * 256 + buf[i + 1]

read_u16_le(buf, i) == buf[i + 1] * 256 + buf[i]

\* IcmpEchoMessage::serialize
serialize(message) ==
    <<message.msg_type, message.code,
      to_be_bytes(message.checksum)[1], to_be_bytes(message.checksum)[2],
      to_be_bytes(message.identifier)[1], to_be_bytes(message.identifier)[2],
      to_be_bytes(message.sequence_number)[1],
      to_be_bytes(message.sequence_number)[2]>> \o message.data

\* populate_checksum, first loop: the sum of the first n 16-bit words.
RECURSIVE sum_words(_, _)
sum_words(buf, n) ==
    IF n = 0 THEN 0 ELSE sum_words(buf, n - 1) + read_u16(buf, 2 * n - 1)

\* populate_checksum, second loop: while (sum >> 16) > 0, fold the carry in.
RECURSIVE fold_carry(_)
fold_carry(sum) ==
    IF sum \div 65536 > 0
    THEN fold_carry((sum % 65536) + (sum \div 65536))
    ELSE sum

populate_checksum_without_carry(message) ==
    LET buf == serialize(message)
        sum == sum_words(buf, Len(buf) \div 2) % 65536
    IN  [message EXCEPT !.checksum = 65535 - (sum % 65536)]

\* IcmpEchoMessage::populate_checksum: !sum on a u32, then `as u16`, is the
\* complement of the low 16 bits.
populate_checksum(message) ==
    LET buf == serialize(message)
        sum == fold_carry(sum_words(buf, Len(buf) \div 2))
    IN  [message EXCEPT !.checksum = 65535 - (sum % 65536)]

\* IcmpEchoMessage::new
new(identifier, sequence_number) ==
    populate_checksum(
        [msg_type |-> 8, code |-> 0, checksum |-> 0,
         identifier |-> identifier, sequence_number |-> sequence_number,
         data |-> [i \in 1..(ICMP_MSG_SIZE - 8) |-> 255 - (i - 1)]])

from_little_endian(buf_be) ==
    IF Len(buf_be) < ICMP_MSG_SIZE
    THEN [result |-> "panic", message |-> NoMessage]
    ELSE [result |-> "ok",
          message |-> [msg_type |-> buf_be[1], code |-> buf_be[2],
                       checksum |-> read_u16_le(buf_be, 3),
                       identifier |-> read_u16_le(buf_be, 5),
                       sequence_number |-> read_u16_le(buf_be, 7),
                       data |-> SubSeq(buf_be, 9, ICMP_MSG_SIZE)]]

\* IcmpEchoMessage::from: every read is unwrapped, so a buffer that ends
\* before the 64th byte panics the caller; there is no error value.
from(buf_be) ==
    IF Len(buf_be) < ICMP_MSG_SIZE
    THEN [result |-> "panic", message |-> NoMessage]
    ELSE [result |-> "ok",
          message |-> [msg_type |-> buf_be[1], code |-> buf_be[2],
                       checksum |-> read_u16(buf_be, 3),
                       identifier |-> read_u16(buf_be, 5),
                       sequence_number |-> read_u16(buf_be, 7),
                       data |-> SubSeq(buf_be, 9, ICMP_MSG_SIZE)]]

\* The identifiers and sequence numbers the message is built from, and the
\* lengths a buffer is cut to.
CodecValues == {0, 1, 255, 256, 4660, 65280, 65534, 65535}
CutLengths == {0, 1, 7, 8, 40, 63}

CodecInit ==
    /\ now = 0
    /\ args = <<>>
    /\ main_i = 0
    /\ data = EmptyMap
    /\ mutex = 0
    /\ loop = <<>>
    /\ socket = <<>>
    /\ exited = FALSE
    /\ inserted = [h \in Hostnames |-> <<>>]
    /\ bpf_in = NoFilterInput
    /\ bpf_ret = -1
    /\ render = NoRender
    /\ retention = NoRetention
    /\ \E identifier \in CodecValues, sequence_number \in CodecValues :
          codec = [NoCodec EXCEPT !.stage = "input",
                                  !.identifier = identifier,
                                  !.sequence_number = sequence_number]

CodecUnchanged == UNCHANGED <<now, args, main_i, data, mutex, loop, socket,
                              exited, inserted, bpf_in, bpf_ret, render,
                              retention>>

\* request = IcmpEchoMessage::new(id, seq); request.serialize()
Encode ==
    /\ codec.stage = "input"
    /\ LET message == new(codec.identifier, codec.sequence_number) IN
          codec' = [codec EXCEPT !.stage = "encoded", !.message = message,
                                 !.buf = serialize(message)]
    /\ CodecUnchanged

\* Only the first n bytes of the buffer reach the decoder.
Truncate ==
    /\ codec.stage = "encoded"
    /\ \E n \in CutLengths :
          codec' = [codec EXCEPT !.stage = "cut", !.buf = SubSeq(codec.buf, 1, n)]
    /\ CodecUnchanged

\* IcmpEchoMessage::from(&buf)
Decode ==
    /\ codec.stage \in {"encoded", "cut"}
    /\ LET res == from(codec.buf) IN
          codec' = [codec EXCEPT !.stage = "decoded", !.result = res.result,
                                 !.decoded = res.message]
    /\ CodecUnchanged

CodecNext == Encode \/ Truncate \/ Decode

SpecCodec == CodecInit /\ [][CodecNext]_vars

\* C12: the one's-complement sum, with end-around carry, of the thirty-two
\* big-endian 16-bit words of a serialized new message is 0xFFFF.
C12_ChecksumInvariant ==
    (codec.stage = "encoded") =>
        /\ Len(codec.buf) = 64
        /\ fold_carry(sum_words(codec.buf, 32)) = 65535

\* C12's case: a message whose word sum carries out of 16 bits.
C12_Witness ==
    /\ codec.stage = "encoded"
    /\ sum_words(codec.buf, 32) > 65535
    /\ codec.identifier = 65535

\* C13: decoding the serialization of new(id, seq) gives back type 8,
\* code 0, the identifier, the sequence number, the checksum and the 56
\* payload bytes.
C13_RoundTrip ==
    (codec.stage = "decoded" /\ Len(codec.buf) = ICMP_MSG_SIZE) =>
        /\ codec.result = "ok"
        /\ codec.decoded.msg_type = 8
        /\ codec.decoded.code = 0
        /\ codec.decoded.identifier = codec.identifier
        /\ codec.decoded.sequence_number = codec.sequence_number
        /\ codec.decoded.checksum = codec.message.checksum
        /\ codec.decoded.data = codec.message.data
        /\ Len(codec.decoded.data) = 56

\* C13's case: a decoded message whose identifier and sequence number have
\* different high and low bytes.
C13_Witness ==
    /\ codec.stage = "decoded"
    /\ codec.result = "ok"
    /\ codec.decoded.identifier = 4660
    /\ codec.decoded.sequence_number = 65280

\* C14: decoding a buffer of fewer than 64 bytes gives the caller a
\* Truncated error value; it does not abort the caller.
C14_TruncatedIsAnError ==
    (codec.stage = "decoded" /\ Len(codec.buf) < ICMP_MSG_SIZE) =>
        codec.result = "Truncated"

(***************************************************************************)
(* Claims about the setup, the shared store and the send.                  *)
(***************************************************************************)
\* C15: no loop ever probes with a filter layer that failed to install.
C15_NoProbeWithoutFilters ==
    \A t \in Threads :
        Probing(t) => (socket[t].icmp_filter /\ socket[t].bpf)

\* C16: when the lookup of a hostname gives no IPv4 address, the whole
\* process terminates.
C16_LookupFailureEndsProcess ==
    \A t \in Threads : loop[t].panic = "lookup" => exited

\* C17: at most one of the probe loops and the page handler is inside the
\* store at any time, and what the handler has read during one pass is the
\* store as it was when the pass began: no add_entry came in between.
C17_MutualExclusion ==
    /\ Cardinality({t \in Threads : loop[t].pc = "add_entry"})
           + (IF render.pc = "locked" THEN 1 ELSE 0) <= 1
    /\ render.pc = "locked" =>
          /\ data = render.seen
          /\ \A j \in 1..render.i : render.html[j] = render.seen[args[j]]
    /\ \A t \in Threads : loop[t].pc = "add_entry" => mutex = t

\* C17's case: the handler is between two hostnames of a store that holds a
\* sample, and a probe loop is waiting for the lock.
C17_Witness ==
    /\ render.pc = "locked"
    /\ render.i = 1
    /\ \E h \in DOMAIN data : len(data[h]) > 0
    /\ \E t \in Threads : loop[t].pc = "lock"

\* C18: a sample, once inserted, stays in its series with its duration
\* until it is evicted as the oldest entry of a full series.
C18_SamplesImmutable ==
    \A t \in Threads :
        (Probing(t) /\ loop[t].pc \in {"sleep_calc", "sleeping"}) =>
            LET series == data[loop[t].hostname] IN
            \/ /\ loop[t].start_time \in DOMAIN series
               /\ series[loop[t].start_time] = loop[t].ping_duration
            \/ /\ len(series) >= MAX_ENTRIES_SAVED
               /\ \A k \in DOMAIN series : k > loop[t].start_time

\* C19: a hostname is registered before its probe thread exists, so
\* add_entry never meets an unregistered key.
C19_RegisteredBeforeRecorded ==
    \A t \in Threads :
        /\ loop[t].pc # "unspawned" => loop[t].hostname \in DOMAIN data
        /\ loop[t].panic # "unregistered"

\* C19's case: a probe thread has recorded a sample while main is still in
\* its registration loop.
C19_Witness ==
    /\ main_i < Len(args)
    /\ \E t \in Threads :
          /\ loop[t].pc = "sleep_calc"
          /\ len(data[loop[t].hostname]) = 1

\* C20: a failed send is not fatal: the iteration goes on to the receive
\* loop with the deadline start_time + PING_TIMEOUT_MSEC, records a
\* timed-out sample under its send time when nothing matches, sleeps until
\* start_time + ProbeIntervalMs, and the next iteration uses the next
\* sequence number.
C20_Recorded ==
    \A t \in Threads :
        (Probing(t) /\ ~loop[t].send_ok /\ ~loop[t].response_recvd) =>
            /\ loop[t].panic \in {"", "decode"}
            /\ loop[t].pc = "measure" => now >= deadline(t)
            /\ Recorded(t) =>
                  /\ loop[t].start_time \in DOMAIN data[loop[t].hostname]
                  /\ data[loop[t].hostname][loop[t].start_time]
                         >= PING_TIMEOUT_MSEC
            /\ loop[t].pc = "sleeping" =>
                  loop[t].wake_at = loop[t].start_time + ProbeIntervalMs

C20_Steps ==
    \A t \in Threads :
        (loop[t].pc = "loop_top" /\ loop'[t].pc # "loop_top") =>
            /\ loop'[t].pc = "while"
            /\ loop'[t].start_time = now
            /\ loop'[t].sequence_number = loop[t].sequence_number + 1

C20_FailedSendNotFatal == []C20_Recorded /\ [][C20_Steps]_vars

\* C20's case: the iteration whose send failed has recorded its timed-out
\* sample and sleeps.
C20_Witness ==
    \E t \in Threads :
        /\ loop[t].pc = "sleeping"
        /\ loop[t].sequence_number = 1
        /\ ~loop[t].send_ok
        /\ ~loop[t].response_recvd
        /\ data[loop[t].hostname][loop[t].start_time] >= PING_TIMEOUT_MSEC

(***************************************************************************)
(* Claims about receive errors, progress and the order of the samples.     *)
(***************************************************************************)
\* C21: a receive call that returns an error counts as "no matching reply
\* yet": it neither ends the iteration as matched nor ends the loop; the
\* loop tests the deadline again and receives again before the deadline, or
\* leaves at the deadline and records a timed-out sample.
C21_AfterRecv ==
    \A t \in Threads :
        /\ (loop[t].pc = "measure" /\ ~loop[t].response_recvd) =>
                now >= deadline(t)
        /\ (Recorded(t) /\ ~loop[t].response_recvd) =>
                /\ loop[t].start_time \in DOMAIN data[loop[t].hostname]
                /\ data[loop[t].hostname][loop[t].start_time] >= PING_TIMEOUT_MSEC

\* A step that leaves recv_from without taking a packet off the queue is a
\* return with an error.
C21_Steps ==
    \A t \in Threads :
        /\ (loop[t].pc = "recv" /\ loop'[t].pc # "recv"
               /\ socket'[t].queue = socket[t].queue) =>
              /\ loop'[t].pc = "while"
              /\ ~loop'[t].response_recvd
              /\ loop'[t].panic = ""
        /\ (loop[t].pc = "while" /\ loop'[t].pc # "while"
               /\ ~loop[t].response_recvd) =>
              loop'[t].pc = IF now < deadline(t) THEN "recv" ELSE "measure"

C21_RecvErrorIsNoReplyYet == []C21_AfterRecv /\ [][C21_Steps]_vars

\* C21's case: a receive started after the send although no packet was
\* discarded in this iteration: the receive before it returned an error.
C21_Witness ==
    \E t \in Threads :
        /\ loop[t].pc = "recv"
        /\ loop[t].recv_start > loop[t].start_time
        /\ loop[t].discarded_at = -1
        /\ now < deadline(t)

\* C22: once the setup has succeeded the probe loop has no terminal state:
\* whatever the send and the receive calls return (success, error, a
\* non-matching or a malformed packet), the loop goes on to record a sample
\* and to send the next probe.
C22_NoTerminalState ==
    \A t \in Threads : Probing(t) => loop[t].pc # "panicked"

\* C23: one probe loop hands its samples to add_entry in non-decreasing
\* timestamp order: the sample it has just recorded is stored under its
\* send time, and no sample of the series has a later timestamp.
C23_TimestampsNonDecreasing ==
    \A t \in Threads :
        Recorded(t) =>
            LET series == data[loop[t].hostname] IN
            /\ loop[t].start_time \in DOMAIN series
            /\ \A k \in DOMAIN series : k <= loop[t].start_time

\* C23's case: the second sample of a loop has been recorded after the
\* first.
C23_Witness ==
    \E t \in Threads :
        /\ Recorded(t)
        /\ loop[t].sequence_number = 2
        /\ DOMAIN data[loop[t].hostname] = {0, loop[t].start_time}
        /\ loop[t].start_time > 0

(***************************************************************************)
(* How long a sample is kept under the configured capacity.                *)
(*                                                                         *)
(* One loop records a sample every SEC_BETWEEN_PINGS seconds: sample i has *)
(* the timestamp i * SEC_BETWEEN_PINGS.  With timestamps in increasing     *)
(* order the series is a window of the newest samples, so it is kept as    *)
(* two counts: the samples recorded so far (probes) and the index of the   *)
(* oldest one still held (oldest).                                         *)
(***************************************************************************)
\* config.rs: 30 * 24 * (60 / SEC_BETWEEN_PINGS as usize), in usize
\* arithmetic.
ConfiguredMaxEntries(sec_between_pings) == 30 * 24 * (60 \div sec_between_pings)

\* The 30 days of the comment on MAX_ENTRIES_SAVED, in seconds.
ThirtyDaysSec == 30 * 24 * 60 * 60

RetainExtra == 100      \* samples recorded beyond a full series

\* The series is empty, or it has just been filled: nothing is evicted
\* before the series holds max_entries samples.
RetainInit ==
    /\ now = 0
    /\ args = <<>>
    /\ main_i = 0
    /\ data = EmptyMap
    /\ mutex = 0
    /\ loop = <<>>
    /\ socket = <<>>
    /\ exited = FALSE
    /\ inserted = [h \in Hostnames |-> <<>>]
    /\ bpf_in = NoFilterInput
    /\ bpf_ret = -1
    /\ render = NoRender
    /\ codec = NoCodec
    /\ \E n \in {0, ConfiguredMaxEntries(SEC_BETWEEN_PINGS)} :
          retention = [max_entries |-> ConfiguredMaxEntries(SEC_BETWEEN_PINGS),
                       probes |-> n, oldest |-> 0]

\* add_entry on the window: len() is probes - oldest, pop_first drops the
\* sample `oldest`, insert adds the sample `probes`.
RetainProbe ==
    /\ retention.probes < retention.max_entries + RetainExtra
    /\ retention' = [retention EXCEPT
          !.probes = @ + 1,
          !.oldest = IF retention.probes - retention.oldest >= retention.max_entries
                     THEN @ + 1 ELSE @]
    /\ UNCHANGED <<now, args, main_i, data, mutex, loop, socket, exited,
                   inserted, bpf_in, bpf_ret, render, codec>>

RetainNext == RetainProbe

SpecRetain == RetainInit /\ [][RetainNext]_vars

\* C24: the configured capacity is the number of probes of 30 days, so no
\* sample younger than 30 days has been evicted: the youngest evicted
\* sample, oldest - 1, is at least 30 days older than the newest one.
C24_ThirtyDaysRetained ==
    retention.oldest > 0 =>
        /\ retention.max_entries = ThirtyDaysSec \div SEC_BETWEEN_PINGS
        /\ (retention.probes - retention.oldest) * SEC_BETWEEN_PINGS
               >= ThirtyDaysSec

=============================================================================
